---- MODULE Spec2Model ----
(***************************************************************************)
(* Feed parser service of RSSSandbox: the LRU/TTL cache, the in-flight     *)
(* request tracker and the fetch-and-parse pipeline                        *)
(* (backend/src/services/feedParser.ts).                                   *)
(***************************************************************************)
EXTENDS Integers, Sequences, FiniteSets, TLC

VARIABLES
    now,               \* Date.now(), in ms since the service was constructed
    cache,             \* LRUCache.cache: entries in Map insertion order
    cleanupInterval,   \* LRUCache.cleanupInterval is set (the sweep timer runs)
    inFlightRequests,  \* Map url -> computation (0: no entry)
    comps,             \* the requestPromise computations, in the order started
    issued,            \* number of parseFeed calls issued so far
    last,              \* what the latest parseFeed call or delivery handed out
    run,               \* one parseFeedInternal run, stepped on its own
    call               \* one application of a helper function, on its own

vars == <<now, cache, cleanupInterval, inFlightRequests, comps, issued, last, run, call>>

----------------------------------------------------------------------------
(* Configuration and bounds of the model *)

\* TTL of the cache, in ms
CACHE_TTL == 5 * 60 * 1000
ttl == CACHE_TTL
\* capacity the cache is constructed with: MAX_CACHE_SIZE is 100 in the
\* program, the model runs a smaller cache
maxSize == 2
\* the clock advances by this many ms at a time: an entry is read at age 0,
\* at age CACHE_TTL exactly, and past it
TickMs == 300000
\* the clock stops once an entry stored at time 0 has expired
MaxTime == CACHE_TTL + TickMs
\* parseFeed calls issued in one behaviour
MaxCalls == 3

\* URL keys; the empty string is a string like any other
URLs == {"", "a", "b"}
\* the URLs parseFeed is called with
FeedURLs == {"a", "b"}

----------------------------------------------------------------------------
(* Size limits *)

MAX_FEED_ITEMS == 1000
MAX_FEED_SIZE_MB == 10
MAX_FEED_SIZE_BYTES == MAX_FEED_SIZE_MB * 1024 * 1024
\* MAX_FEED_SIZE_BYTES * 0.8, which is an integer
SIZE_CHECK_THRESHOLD == (MAX_FEED_SIZE_BYTES * 8) \div 10

\* Math.ceil(n * k / 10) for integers n >= 0, k > 0
CeilTenths(n, k) == (n * k + 9) \div 10

----------------------------------------------------------------------------
(* Results *)

\* what a failure message says: its category, the message template, and the
\* number the template embeds (HTTP status, item count, feed size; 0: none)
ErrorInfo(type, msg, n) == [type |-> type, msg |-> msg, n |-> n]
NoError == ErrorInfo("none", "none", 0)

\* "no value": null from LRUCache.get, a promise not yet settled
NoResult == [id |-> 0, success |-> FALSE, error |-> NoError, size |-> 0]

\* a FeedParseResult object; id is the identity of the object (the computation
\* whose parseFeedInternal run created it), size the exact serialized size
\* of result.feed (0 without a feed)
Result(id, success, error, size) ==
    [id |-> id, success |-> success, error |-> error, size |-> size]

----------------------------------------------------------------------------
(* LRUCache *)

\* a JavaScript string used as a condition: the empty string is falsy
Truthy(s) == s # ""

\* position of url's entry in the Map, 0 when it has none
IndexOf(c, url) ==
    IF \E i \in 1..Len(c) : c[i].url = url
    THEN CHOOSE i \in 1..Len(c) : c[i].url = url
    ELSE 0

\* Map.delete(url)
MapDelete(c, url) == SelectSeq(c, LAMBDA e : e.url # url)

\* Map.set(url, entry): an existing key keeps its position, a new one goes last
MapSet(c, entry) ==
    IF IndexOf(c, entry.url) = 0
    THEN Append(c, entry)
    ELSE [c EXCEPT ![IndexOf(c, entry.url)] = entry]

\* the age is counted from the latest read
Expired_SinceAccess(entry, t) == t - entry.accessTime > ttl

\* the entry expires one ms early, at age ttl
Expired_AtTtl(entry, t) == t - entry.timestamp >= ttl

Expired(entry, t) == t - entry.timestamp > ttl

\* LRUCache.get: the cache afterwards and the value returned
CacheGet(c, url, t) ==
    LET i == IndexOf(c, url) IN
    IF i = 0
    THEN [cache |-> c, result |-> NoResult]
    ELSE IF Expired(c[i], t)
    THEN [cache |-> MapDelete(c, url), result |-> NoResult]
    ELSE LET entry == [c[i] EXCEPT !.accessTime = t] IN
         [cache |-> MapSet(MapDelete(c, url), entry), result |-> entry.result]

\* the eviction step of LRUCache.set on the Map left after removing url
EvictFirst(c) ==
    IF Len(c) >= maxSize
    THEN IF Len(c) > 0 /\ Truthy(Head(c).url)
         THEN MapDelete(c, Head(c).url)
         ELSE c
    ELSE c

\* LRUCache.set
CacheSet(c, url, result, t) ==
    LET c1 == IF IndexOf(c, url) # 0 THEN MapDelete(c, url) ELSE c
        c2 == EvictFirst(c1)
    IN  MapSet(c2, [url |-> url, result |-> result, timestamp |-> t, accessTime |-> t])

\* only expired entries that were never read are removed
CacheCleanup_UnreadOnly(c, t) ==
    SelectSeq(c, LAMBDA e : ~(Expired(e, t) /\ e.accessTime = e.timestamp))

\* LRUCache.cleanup
CacheCleanup(c, t) == SelectSeq(c, LAMBDA e : ~Expired(e, t))

\* LRUCache.size
CacheSize(c) == Len(c)

CacheKeys(c) == {c[i].url : i \in 1..Len(c)}

----------------------------------------------------------------------------
(* Strings *)

UpperCase == "ABCDEFGHIJKLMNOPQRSTUVWXYZ"
LowerCase == "abcdefghijklmnopqrstuvwxyz"

LowerChar(ch) ==
    IF \E i \in 1..Len(UpperCase) : SubSeq(UpperCase, i, i) = ch
    THEN LET i == CHOOSE j \in 1..Len(UpperCase) : SubSeq(UpperCase, j, j) = ch
         IN  SubSeq(LowerCase, i, i)
    ELSE ch

\* String.prototype.toLowerCase
RECURSIVE toLowerCase(_)
toLowerCase(s) ==
    IF Len(s) = 0 THEN ""
    ELSE LowerChar(SubSeq(s, 1, 1)) \o toLowerCase(SubSeq(s, 2, Len(s)))

\* String.prototype.includes
includes(s, needle) ==
    \E i \in 1..(Len(s) - Len(needle) + 1) : SubSeq(s, i, i + Len(needle) - 1) = needle

IncludesAny(s, needles) == \E n \in needles : includes(s, n)

----------------------------------------------------------------------------
(* Error classifier *)

NetworkNeedles == {"enotfound", "econnrefused", "timeout", "network", "dns",
                   "getaddrinfo", "connection", "econnreset"}
CorsNeedles == {"cors", "cross-origin", "access-control", "no access-control-allow-origin"}
ParseNeedles == {"parse", "xml", "invalid", "malformed", "syntax", "unexpected",
                 "not well-formed"}
TlsNeedles == {"ssl", "tls", "certificate", "unable to verify"}
RateNeedles == {"rate limit", "too many requests", "429"}

\* the text matching of parseError, reached when no HTTP branch returned
classifyText(errorMessage) ==
    LET errorString == toLowerCase(errorMessage) IN
    IF IncludesAny(errorString, NetworkNeedles) THEN ErrorInfo("network", "connection", 0)
    ELSE IF IncludesAny(errorString, CorsNeedles) THEN ErrorInfo("cors", "cors", 0)
    ELSE IF IncludesAny(errorString, ParseNeedles) THEN ErrorInfo("parse", "format", 0)
    ELSE IF IncludesAny(errorString, TlsNeedles) THEN ErrorInfo("network", "tls", 0)
    ELSE IF IncludesAny(errorString, RateNeedles) THEN ErrorInfo("http", "ratelimit", 0)
    ELSE ErrorInfo("unknown", "generic", 0)

\* the text is matched first and the status only for a text of no class
parseError_TextFirst(errorMessage, httpStatus) ==
    IF classifyText(errorMessage).type # "unknown" THEN classifyText(errorMessage)
    ELSE IF httpStatus >= 400 THEN ErrorInfo("http", "client", httpStatus)
    ELSE classifyText(errorMessage)

\* FeedParserService.parseError; httpStatus 0 stands for undefined (both falsy)
parseError(errorMessage, httpStatus) ==
    IF httpStatus # 0 /\ httpStatus = 404 THEN ErrorInfo("http", "notfound", 404)
    ELSE IF httpStatus # 0 /\ httpStatus = 403 THEN ErrorInfo("http", "forbidden", 403)
    ELSE IF httpStatus # 0 /\ httpStatus = 401 THEN ErrorInfo("http", "auth", 401)
    ELSE IF httpStatus # 0 /\ httpStatus \in {500, 502, 503, 504}
         THEN ErrorInfo("http", "server", httpStatus)
    ELSE IF httpStatus # 0 /\ httpStatus >= 400 /\ httpStatus < 500
         THEN ErrorInfo("http", "client", httpStatus)
    ELSE IF httpStatus # 0 /\ httpStatus >= 500
         THEN ErrorInfo("http", "server-other", httpStatus)
    ELSE classifyText(errorMessage)

----------------------------------------------------------------------------
(* Size guard *)

\* A parsed document as the pipeline sees it:
\*   items    feed.items.length (-1: feed.items is undefined)
\*   rawSize  the raw payload length when known (feed.raw.length of a string
\*            raw, JSON.stringify(jsonData).length), 0 otherwise
\*   strLen   summed lengths of the normalized title, description and link of
\*            the feed and title, description, content and link of the items
\*   exact    JSON.stringify(normalizedFeed).length
Doc(items, rawSize, strLen, exact) ==
    [items |-> items, rawSize |-> rawSize, strLen |-> strLen, exact |-> exact]

\* estimateFeedSize; rawFeedSize 0 stands for undefined (both falsy)
estimateFeedSize(doc, rawFeedSize) ==
    IF rawFeedSize # 0
    THEN CeilTenths(rawFeedSize, 12)
    ELSE CeilTenths(doc.strLen, 13)

\* feedSize as compared with MAX_FEED_SIZE_BYTES: the estimate, replaced by
\* the exact size only when the estimate is above the threshold
checkedFeedSize(doc, rawFeedSize) ==
    LET feedSize == estimateFeedSize(doc, rawFeedSize) IN
    IF feedSize > SIZE_CHECK_THRESHOLD THEN doc.exact ELSE feedSize

----------------------------------------------------------------------------
(* parseFeedInternal *)

\* how a block of code ends: it returns a result, throws, or runs to its end;
\* normalized is the number of items the block passed to the item normalizer
Returned(r) ==
    [kind |-> "return", result |-> r, error |-> "", httpStatus |-> 0, normalized |-> 0]
Threw(msg, st) ==
    [kind |-> "throw", result |-> NoResult, error |-> msg, httpStatus |-> st, normalized |-> 0]
FellThrough(st) ==
    [kind |-> "end", result |-> NoResult, error |-> "", httpStatus |-> st, normalized |-> 0]

ItemsError(id, n) == Result(id, FALSE, ErrorInfo("item-count-exceeded", "items", n), 0)
SizeError(id, n) == Result(id, FALSE, ErrorInfo("size-exceeded", "size", n), 0)
Success(id, doc) == Result(id, TRUE, NoError, doc.exact)

\* the cap rejects a feed of exactly MAX_FEED_ITEMS items as well
ExceedsItemCap_AtCap(n) == n >= MAX_FEED_ITEMS

\* the item count check: items.length > MAX_FEED_ITEMS
ExceedsItemCap(n) == n > MAX_FEED_ITEMS

\* items.map(normalize...) has run over the n items before the block ends
AfterMap(o, n) == [o EXCEPT !.normalized = n]

\* item cap, normalization and size guard, shared by both paths
guardAndNormalize(id, doc, rawFeedSize) ==
    IF ExceedsItemCap(doc.items)
    THEN Returned(ItemsError(id, doc.items))
    ELSE IF doc.items < 0
    THEN Threw("Cannot read properties of undefined (reading 'map')", 0)
    ELSE LET feedSize == checkedFeedSize(doc, rawFeedSize) IN
         IF feedSize > MAX_FEED_SIZE_BYTES
         THEN AfterMap(Returned(SizeError(id, feedSize)), doc.items)
         ELSE AfterMap(Returned(Success(id, doc)), doc.items)

\* The answers of the collaborators to one run:
\*   xml        "feed": parser.parseURL resolves with doc; "throws": it rejects
\*   xmlError   message of the error it rejects with
\*   fetch      "response": fetchWithTimeout resolves; "throws": it rejects
\*   fetchStatus  the status property of the error it rejects with (0: none)
\*   status     response.status
\*   body       "jsonfeed": JSON with the JSON Feed version marker, parsed
\*              into doc; "json": other JSON; "invalid": response.json() throws
\*   doc        the document parsed on the path that gets one
ResponseOk(status) == status >= 200 /\ status <= 299

\* a feed over a limit is thrown as an error instead of returned as a result
xmlAttempt_ThrowsOverLimit(id, env) ==
    IF env.xml = "throws"
    THEN Threw(env.xmlError, 0)
    ELSE LET o == guardAndNormalize(id, env.doc, env.doc.rawSize) IN
         IF o.kind = "return" /\ ~o.result.success
         THEN Threw("Feed exceeds the maximum limit", 0)
         ELSE o

\* the try block of the RSS/Atom attempt
xmlAttempt(id, env) ==
    IF env.xml = "throws"
    THEN Threw(env.xmlError, 0)
    ELSE guardAndNormalize(id, env.doc, env.doc.rawSize)

\* the inner try block: the JSON Feed fallback
jsonAttempt(id, env) ==
    IF env.fetch = "throws"
    THEN Threw("fetch failed", env.fetchStatus)
    ELSE IF ~ResponseOk(env.status)
    THEN FellThrough(env.status)
    ELSE IF env.body = "invalid"
    THEN Threw("Unexpected token < in JSON at position 0", 0)
    ELSE IF env.body = "json"
    THEN FellThrough(env.status)
    ELSE LET items == IF env.doc.items < 0 THEN 0 ELSE env.doc.items  \* items || []
         IN  guardAndNormalize(id, [env.doc EXCEPT !.items = items], env.doc.rawSize)

\* no inner catch: a throw of the JSON fallback leaves parseFeedInternal
jsonCatch_Missing(o, assigned) == o

\* the inner catch: a throw of the JSON fallback falls through to the
\* classification; httpStatus is the thrown error's status property when it
\* has one, else what the try block had assigned
jsonCatch(o, assigned) ==
    IF o.kind = "throw"
    THEN AfterMap(FellThrough(IF o.httpStatus # 0 THEN o.httpStatus ELSE assigned),
                  o.normalized)
    ELSE o

\* httpStatus as assigned inside the inner try block before it ended
AssignedStatus(env) == IF env.fetch = "throws" THEN 0 ELSE env.status

\* the error thrown on the JSON path is classified when there is one
xmlCatch_JsonErrorClassified(id, errorMessage, env) ==
    LET j == jsonAttempt(id, env)
        o == jsonCatch(j, AssignedStatus(env))
        message == IF j.kind = "throw" THEN j.error ELSE errorMessage
    IN  IF o.kind = "end"
        THEN AfterMap(Returned(Result(id, FALSE, parseError(message, o.httpStatus), 0)),
                      o.normalized)
        ELSE o

\* the outer catch block
xmlCatch(id, errorMessage, env) ==
    LET o == jsonCatch(jsonAttempt(id, env), AssignedStatus(env)) IN
    IF o.kind = "end"
    THEN AfterMap(Returned(Result(id, FALSE, parseError(errorMessage, o.httpStatus), 0)),
                  o.normalized)
    ELSE o

\* parseFeedInternal: how the promise it returns settles
parseFeedInternal(id, env) ==
    LET o == xmlAttempt(id, env)
        final == IF o.kind = "throw" THEN xmlCatch(id, o.error, env) ELSE o
    IN  [rejected |-> final.kind # "return", result |-> final.result]

----------------------------------------------------------------------------
(* Collaborator answers the model draws from *)

MiB == 1024 * 1024

Env(xml, xmlError, fetch, fetchStatus, status, body, doc) ==
    [xml |-> xml, xmlError |-> xmlError, fetch |-> fetch, fetchStatus |-> fetchStatus,
     status |-> status, body |-> body, doc |-> doc]

SmallDoc == Doc(3, 0, 100, 400)

\* a well-formed RSS feed with three items
EnvFeed == Env("feed", "", "response", 0, 200, "invalid", SmallDoc)
\* not a feed at all, and the URL answers 404
EnvNotFound == Env("throws", "Status code 404", "response", 0, 404, "invalid", SmallDoc)

\* the answers drawn at service level
ServiceEnvs == {EnvFeed, EnvNotFound}

\* Documents: item counts around the cap, and sizes around the threshold and
\* the cap. The serialized normalized feed holds the strings that strLen sums
\* and, in its raw field, the raw payload, so exact exceeds both.
ItemCounts == {-1, 0, 1, MAX_FEED_ITEMS, MAX_FEED_ITEMS + 1}
RawSizes == {0, 6 * MiB, 9 * MiB}
StrLens == {100, 6 * MiB, 7 * MiB}
ExactSizes == {400, MAX_FEED_SIZE_BYTES, MAX_FEED_SIZE_BYTES + 1, 13 * MiB}

Docs ==
    {Doc(n, r, l, x) : n \in ItemCounts, r \in RawSizes, l \in StrLens, x \in ExactSizes}

XmlDocs == {d \in Docs : d.exact > d.strLen /\ d.exact > d.rawSize}
\* JSON.stringify(jsonData) is never empty
JsonDocs == {d \in XmlDocs : d.rawSize > 0}

ErrorTexts == {"connect ECONNREFUSED 10.0.0.1:443",
               "Non-whitespace before first tag.",
               "Unexpected token < in JSON at position 0",
               "Status code 404",
               "Feed not recognized as RSS 1 or 2."}
Statuses == {200, 204, 302, 401, 403, 404, 418, 500, 503, 599}

\* the answers one parseFeedInternal run can get
InternalEnvs ==
    {Env("feed", "", "response", 0, 200, "invalid", d) : d \in XmlDocs}
    \cup {Env("throws", e, "throws", st, 0, "invalid", SmallDoc) :
             e \in ErrorTexts, st \in {0, 503}}
    \cup {Env("throws", e, "response", 0, st, b, SmallDoc) :
             e \in ErrorTexts, st \in Statuses, b \in {"invalid", "json"}}
    \cup {Env("throws", "Non-whitespace before first tag.", "response", 0, 200, "jsonfeed", d) :
             d \in JsonDocs}

----------------------------------------------------------------------------
(* FeedParserService *)

NoEntry == 0

\* a requestPromise: the call that created it, how it has settled, and the
\* number of callers holding it whose await has not resumed yet
Comp(url, useCache) ==
    [url |-> url, useCache |-> useCache, status |-> "pending", result |-> NoResult,
     waiters |-> 1]

\* a settled promise no caller holds any more
Collected ==
    [url |-> "", useCache |-> FALSE, status |-> "collected", result |-> NoResult,
     waiters |-> 0]

\* what a caller is handed: by a parseFeed call ("cache": the cached result,
\* "joined"/"started": the promise of computation comp) or by the promise
\* settling ("returned", "rejected")
Handed(url, useCache, via, comp, got) ==
    [url |-> url, useCache |-> useCache, via |-> via, comp |-> comp, got |-> got]

Nothing == Handed("", FALSE, "none", 0, NoResult)

\* a parseFeedInternal run: where it stands ("xml": awaiting parser.parseURL,
\* "fetch": awaiting the JSON Feed fetch, "done": settled), the answers it
\* gets, the JSON Feed fetches it has issued, the items it has normalized, and
\* how it settled
NotSettled == [rejected |-> FALSE, result |-> NoResult]
Run(pc, env, fetches, normalized, out) ==
    [pc |-> pc, env |-> env, fetches |-> fetches, normalized |-> normalized, out |-> out]
IdleRun == Run("idle", EnvFeed, 0, 0, NotSettled)

\* an application of a helper: the helper, whether it has returned, its
\* argument and the value it returned
Call(fn, pc, arg, out) == [fn |-> fn, pc |-> pc, arg |-> arg, out |-> out]
NoCall == Call("none", "idle", 0, 0)

Init ==
    /\ now = 0
    /\ cache = << >>
    /\ cleanupInterval = TRUE
    /\ inFlightRequests = [u \in URLs |-> NoEntry]
    /\ comps = << >>
    /\ issued = 0
    /\ last = Nothing
    /\ run = IdleRun
    /\ call = NoCall

\* the tracker is not consulted
inFlightGet_Missed(tracker, url) == NoEntry

\* one slot for all URLs: any entry of the tracker is found
inFlightGet_AnyUrl(tracker, url) ==
    IF \E u \in DOMAIN tracker : tracker[u] # NoEntry
    THEN tracker[CHOOSE u \in DOMAIN tracker : tracker[u] # NoEntry]
    ELSE NoEntry

\* the entry parseFeed finds in the tracker for url
inFlightGet(tracker, url) == tracker[url]

\* a joining call with useCache set makes the computation cache its result
ParseFeed_JoinerDecides(url, useCache) ==
    /\ issued < MaxCalls
    /\ issued' = issued + 1
    /\ LET g == IF useCache THEN CacheGet(cache, url, now)
                ELSE [cache |-> cache, result |-> NoResult]
           inFlight == inFlightGet(inFlightRequests, url)
       IN  /\ cache' = g.cache
           /\ IF g.result # NoResult
              THEN /\ last' = Handed(url, useCache, "cache", 0, g.result)
                   /\ UNCHANGED <<inFlightRequests, comps>>
              ELSE IF inFlight # NoEntry
              THEN /\ last' = Handed(url, useCache, "joined", inFlight, NoResult)
                   /\ comps' = [comps EXCEPT ![inFlight].waiters = @ + 1,
                                             ![inFlight].useCache = @ \/ useCache]
                   /\ UNCHANGED inFlightRequests
              ELSE /\ comps' = Append(comps, Comp(url, useCache))
                   /\ inFlightRequests' = [inFlightRequests EXCEPT ![url] = Len(comps) + 1]
                   /\ last' = Handed(url, useCache, "started", Len(comps) + 1, NoResult)
    /\ UNCHANGED <<now, cleanupInterval, run, call>>

\* the tracker is looked up before the cache
ParseFeed_TrackerFirst(url, useCache) ==
    /\ issued < MaxCalls
    /\ issued' = issued + 1
    /\ LET inFlight == inFlightGet(inFlightRequests, url)
           g == IF useCache /\ inFlight = NoEntry THEN CacheGet(cache, url, now)
                ELSE [cache |-> cache, result |-> NoResult]
       IN  /\ cache' = g.cache
           /\ IF inFlight # NoEntry
              THEN /\ last' = Handed(url, useCache, "joined", inFlight, NoResult)
                   /\ comps' = [comps EXCEPT ![inFlight].waiters = @ + 1]
                   /\ UNCHANGED inFlightRequests
              ELSE IF g.result # NoResult
              THEN /\ last' = Handed(url, useCache, "cache", 0, g.result)
                   /\ UNCHANGED <<inFlightRequests, comps>>
              ELSE /\ comps' = Append(comps, Comp(url, useCache))
                   /\ inFlightRequests' = [inFlightRequests EXCEPT ![url] = Len(comps) + 1]
                   /\ last' = Handed(url, useCache, "started", Len(comps) + 1, NoResult)
    /\ UNCHANGED <<now, cleanupInterval, run, call>>

\* parseFeed(url, useCache) up to the promise it returns
ParseFeed(url, useCache) ==
    /\ issued < MaxCalls
    /\ issued' = issued + 1
    /\ LET g == IF useCache THEN CacheGet(cache, url, now)
                ELSE [cache |-> cache, result |-> NoResult]
           inFlight == inFlightGet(inFlightRequests, url)
       IN  /\ cache' = g.cache
           /\ IF g.result # NoResult
              THEN /\ last' = Handed(url, useCache, "cache", 0, g.result)
                   /\ UNCHANGED <<inFlightRequests, comps>>
              ELSE IF inFlight # NoEntry
              THEN /\ last' = Handed(url, useCache, "joined", inFlight, NoResult)
                   /\ comps' = [comps EXCEPT ![inFlight].waiters = @ + 1]
                   /\ UNCHANGED inFlightRequests
              ELSE /\ comps' = Append(comps, Comp(url, useCache))
                   /\ inFlightRequests' = [inFlightRequests EXCEPT ![url] = Len(comps) + 1]
                   /\ last' = Handed(url, useCache, "started", Len(comps) + 1, NoResult)
    /\ UNCHANGED <<now, cleanupInterval, run, call>>

\* failures are cached as well
ShouldCache_All(useCache, result) == useCache

\* the flag of the starting call is ignored
ShouldCache_IgnoreFlag(useCache, result) == result.success

\* whether the then-callback writes the result to the cache
ShouldCache(useCache, result) == useCache /\ result.success

\* the entry is left in the tracker
inFlightDelete_Kept(tracker, url) == tracker

\* inFlightRequests.delete(url) in the then/catch callback
inFlightDelete(tracker, url) == [tracker EXCEPT ![url] = NoEntry]

\* parseFeedInternal settles for computation c and the then/catch callback of
\* requestPromise runs
Complete(c, env) ==
    /\ c \in 1..Len(comps)
    /\ comps[c].status = "pending"
    /\ LET o == parseFeedInternal(c, env)
           url == comps[c].url
       IN  /\ inFlightRequests' = inFlightDelete(inFlightRequests, url)
           /\ IF o.rejected
              THEN /\ comps' = [comps EXCEPT ![c].status = "rejected"]
                   /\ cache' = cache
              ELSE /\ comps' = [comps EXCEPT ![c].status = "fulfilled", ![c].result = o.result]
                   /\ cache' = IF ShouldCache(comps[c].useCache, o.result)
                               THEN CacheSet(cache, url, o.result, now)
                               ELSE cache
    /\ UNCHANGED <<now, cleanupInterval, issued, last, run, call>>

\* the await of one caller holding the settled promise of c resumes
Deliver(c) ==
    /\ c \in 1..Len(comps)
    /\ comps[c].status \in {"fulfilled", "rejected"}
    /\ comps[c].waiters > 0
    /\ last' = Handed(comps[c].url, comps[c].useCache,
                      IF comps[c].status = "rejected" THEN "rejected" ELSE "returned",
                      c, comps[c].result)
    /\ comps' = IF comps[c].waiters = 1
                THEN [comps EXCEPT ![c] = Collected]
                ELSE [comps EXCEPT ![c].waiters = @ - 1]
    /\ UNCHANGED <<now, cache, cleanupInterval, inFlightRequests, issued, run, call>>

\* the setInterval callback of startCleanup
Sweep ==
    /\ cleanupInterval
    /\ cache' = CacheCleanup(cache, now)
    /\ UNCHANGED <<now, cleanupInterval, inFlightRequests, comps, issued, last, run, call>>

\* clearCache
ClearCache ==
    /\ cache' = << >>
    /\ UNCHANGED <<now, cleanupInterval, inFlightRequests, comps, issued, last, run, call>>

\* the entries are released and the timer is left running
CacheDestroy_TimerKept(timer, c) == [cleanupInterval |-> timer, cache |-> << >>]

\* LRUCache.destroy: clearInterval when the timer is set, then clear()
CacheDestroy(timer, c) ==
    [cleanupInterval |-> IF timer THEN FALSE ELSE timer, cache |-> << >>]

\* inFlightRequests.clear()
inFlightClear(tracker) == [u \in DOMAIN tracker |-> NoEntry]

\* destroy: cache.destroy() and inFlightRequests.clear()
Destroy ==
    /\ cleanupInterval' = CacheDestroy(cleanupInterval, cache).cleanupInterval
    /\ cache' = CacheDestroy(cleanupInterval, cache).cache
    /\ inFlightRequests' = inFlightClear(inFlightRequests)
    /\ UNCHANGED <<now, comps, issued, last, run, call>>

\* the clock advances
Tick ==
    /\ now + TickMs <= MaxTime
    /\ now' = now + TickMs
    /\ UNCHANGED <<cache, cleanupInterval, inFlightRequests, comps, issued, last, run, call>>

Next ==
    \/ \E url \in FeedURLs, useCache \in BOOLEAN : ParseFeed(url, useCache)
    \/ \E c \in 1..MaxCalls, env \in ServiceEnvs : Complete(c, env)
    \/ \E c \in 1..MaxCalls : Deliver(c)
    \/ Sweep
    \/ ClearCache
    \/ Destroy
    \/ Tick

Spec == Init /\ [][Next]_vars

\* the service before shutdown: every operation but destroy
NextRunning ==
    \/ \E url \in FeedURLs, useCache \in BOOLEAN : ParseFeed(url, useCache)
    \/ \E c \in 1..MaxCalls, env \in ServiceEnvs : Complete(c, env)
    \/ \E c \in 1..MaxCalls : Deliver(c)
    \/ Sweep
    \/ ClearCache
    \/ Tick

SpecRunning == Init /\ [][NextRunning]_vars

\* a parseFeed call made while the service has not been destroyed
ParseFeedBeforeDestroy(url, useCache) ==
    /\ cleanupInterval
    /\ ParseFeed(url, useCache)

\* the service shut down once and not used again: parseFeed is called only
\* before destroy, what is pending at destroy still completes
NextShutdown ==
    \/ \E url \in FeedURLs, useCache \in BOOLEAN : ParseFeedBeforeDestroy(url, useCache)
    \/ \E c \in 1..MaxCalls, env \in ServiceEnvs : Complete(c, env)
    \/ \E c \in 1..MaxCalls : Deliver(c)
    \/ Sweep
    \/ ClearCache
    \/ Destroy
    \/ Tick

SpecShutdown == Init /\ [][NextShutdown]_vars

\* every fetch terminates (by response, error or timeout), so the
\* parseFeedInternal run of every computation settles, and the await of every
\* caller of a settled promise resumes
Terminating ==
    /\ \A c \in 1..MaxCalls : WF_vars(\E env \in ServiceEnvs : Complete(c, env))
    /\ \A c \in 1..MaxCalls : WF_vars(Deliver(c))

SpecTerminating == Init /\ [][Next]_vars /\ Terminating

----------------------------------------------------------------------------
(* LRUCache on its own *)

\* the result objects stored
CacheResults == {Result(1, TRUE, NoError, 400), Result(2, TRUE, NoError, 400)}

\* cache.get(url)
LRUGet(url) ==
    /\ cache' = CacheGet(cache, url, now).cache
    /\ last' = Handed(url, TRUE, "get", 0, CacheGet(cache, url, now).result)
    /\ UNCHANGED <<now, cleanupInterval, inFlightRequests, comps, issued, run, call>>

\* cache.set(url, result)
LRUSet(url, result) ==
    /\ cache' = CacheSet(cache, url, result, now)
    /\ last' = Handed(url, TRUE, "set", 0, result)
    /\ UNCHANGED <<now, cleanupInterval, inFlightRequests, comps, issued, run, call>>

NextCache ==
    \/ \E url \in URLs : LRUGet(url)
    \/ \E url \in URLs, result \in CacheResults : LRUSet(url, result)
    \/ Sweep
    \/ ClearCache
    \/ Tick

SpecCache == Init /\ [][NextCache]_vars

----------------------------------------------------------------------------
(* One parseFeedInternal run *)

Settled(o) == [rejected |-> o.kind # "return", result |-> o.result]

InitInternal ==
    /\ now = 0
    /\ cache = << >>
    /\ cleanupInterval = TRUE
    /\ inFlightRequests = [u \in URLs |-> NoEntry]
    /\ comps = << >>
    /\ issued = 0
    /\ last = Nothing
    /\ run \in {Run("xml", env, 0, 0, NotSettled) : env \in InternalEnvs}
    /\ call = NoCall

\* parser.parseURL settles: the try block runs to its return, or throws into
\* the catch block, which issues the JSON Feed fetch
XmlSettles ==
    /\ run.pc = "xml"
    /\ LET o == xmlAttempt(1, run.env) IN
       run' = IF o.kind = "throw"
              THEN [run EXCEPT !.pc = "fetch", !.fetches = @ + 1,
                               !.normalized = @ + o.normalized]
              ELSE [run EXCEPT !.pc = "done", !.normalized = @ + o.normalized,
                               !.out = Settled(o)]
    /\ UNCHANGED <<now, cache, cleanupInterval, inFlightRequests, comps, issued, last, call>>

\* the JSON Feed fetch settles and the catch block runs to its end
FetchSettles ==
    /\ run.pc = "fetch"
    /\ LET o == xmlCatch(1, xmlAttempt(1, run.env).error, run.env) IN
       run' = [run EXCEPT !.pc = "done", !.normalized = @ + o.normalized,
                          !.out = Settled(o)]
    /\ UNCHANGED <<now, cache, cleanupInterval, inFlightRequests, comps, issued, last, call>>

NextInternal == XmlSettles \/ FetchSettles

SpecInternal == InitInternal /\ [][NextInternal]_vars

----------------------------------------------------------------------------
(* parseError on its own *)

\* error texts: messages of Node, of the XML parser and of JSON.parse, with
\* substrings of one class, of several classes, and of none
ClassifierTexts ==
    {"ECONNREFUSED",
     "connect ECONNREFUSED 10.0.0.1:443",
     "getaddrinfo ENOTFOUND feeds.example.com",
     "Invalid XML: socket hang up during connection",
     "Network error: CORS request did not succeed",
     "Cross-Origin Request Blocked: unexpected header",
     "Unexpected token < in JSON at position 0",
     "Non-whitespace before first tag.",
     "Feed not recognized as RSS 1 or 2.",
     "Status code 404",
     "unable to verify the first certificate",
     "certificate has expired",
     "sslv3 alert unexpected message",
     "CORS preflight failed: self signed certificate",
     "Status code 429",
     "Too Many Requests"}

\* the httpStatus argument: 0 for undefined, and statuses of every class
ClassifierStatuses == {0, 100} \cup Statuses \cup {429, 502, 504}

ErrorArg(errorMessage, httpStatus) ==
    [errorMessage |-> errorMessage, httpStatus |-> httpStatus]

InitClassify ==
    /\ now = 0
    /\ cache = << >>
    /\ cleanupInterval = TRUE
    /\ inFlightRequests = [u \in URLs |-> NoEntry]
    /\ comps = << >>
    /\ issued = 0
    /\ last = Nothing
    /\ run = IdleRun
    /\ call \in {Call("parseError", "called", ErrorArg(e, st), NoError) :
                    e \in ClassifierTexts, st \in ClassifierStatuses}

\* parseError(error, url, httpStatus) returns
Classify ==
    /\ call.fn = "parseError"
    /\ call.pc = "called"
    /\ call' = [call EXCEPT !.pc = "returned",
                            !.out = parseError(call.arg.errorMessage, call.arg.httpStatus)]
    /\ UNCHANGED <<now, cache, cleanupInterval, inFlightRequests, comps, issued, last, run>>

NextClassify == Classify

SpecClassify == InitClassify /\ [][NextClassify]_vars

----------------------------------------------------------------------------
(* JavaScript values of the normalizers *)

Undefined == [t |-> "undefined"]
Null == [t |-> "null"]
Str(s) == [t |-> "string", s |-> s]
Num(n) == [t |-> "number", n |-> n]
Arr(items) == [t |-> "array", items |-> items]

\* a Date object: its time value in ms, or an Invalid Date (time value NaN)
DateAt(ms) == [t |-> "date", valid |-> TRUE, ms |-> ms]
InvalidDate == [t |-> "date", valid |-> FALSE, ms |-> 0]

\* a value used as a condition; objects, arrays and Dates are always truthy
TruthyValue(v) ==
    CASE v.t \in {"undefined", "null"} -> FALSE
      [] v.t = "string" -> v.s # ""
      [] v.t = "number" -> v.n # 0
      [] OTHER -> TRUE

\* a || b
Or(a, b) == IF TruthyValue(a) THEN a ELSE b

\* o?.f, and o.f where o is known to be truthy: a property the value does not
\* have reads as undefined
Prop(o, f) == IF f \in DOMAIN o THEN o[f] ELSE Undefined

\* a?.[0]
First(a) == IF a.t = "array" /\ Len(a.items) > 0 THEN a.items[1] ELSE Undefined

\* the date strings Date.parse understands, with their time values
DateStrings ==
    [s \in {"1970-01-02T00:00:00.000Z", "Fri, 02 Jan 1970 00:00:00 GMT"} |-> 24 * 60 * 60 * 1000]

\* new Date(v) for a string or a Date
NewDate(v) ==
    IF v.t = "date" THEN v
    ELSE IF v.t = "string" /\ v.s \in DOMAIN DateStrings THEN DateAt(DateStrings[v.s])
    ELSE InvalidDate

\* x ? new Date(x) : undefined
DateField(v) == IF TruthyValue(v) THEN NewDate(v) ELSE Undefined

Quotes == {"\"", "'"}
CharAt(s, i) == SubSeq(s, i, i)

\* content.match(/<img[^>]+src=["']([^"']+)["']/i): the tag opens at i, the
\* attribute name starts at j, the closing quote stands at k
ClosingQuote(s, j) ==
    IF \E k \in (j + 5)..Len(s) : CharAt(s, k) \in Quotes
    THEN CHOOSE k \in (j + 5)..Len(s) :
            /\ CharAt(s, k) \in Quotes
            /\ \A m \in (j + 5)..(k - 1) : CharAt(s, m) \notin Quotes
    ELSE 0

SrcAt(s, i) ==
    {j \in (i + 5)..(Len(s) - 5) :
        /\ CharAt(s, j + 3) = "="
        /\ toLowerCase(SubSeq(s, j, j + 2)) = "src"
        /\ CharAt(s, j + 4) \in Quotes
        /\ \A m \in (i + 4)..(j - 1) : CharAt(s, m) # ">"
        /\ ClosingQuote(s, j) > j + 5}

ImgAt(s) ==
    {i \in 1..(Len(s) - 3) :
        /\ CharAt(s, i) = "<"
        /\ toLowerCase(SubSeq(s, i + 1, i + 3)) = "img"
        /\ SrcAt(s, i) # {}}

\* extractImageFromContent
extractImageFromContent(content) ==
    IF ~TruthyValue(content) THEN Undefined
    ELSE LET tags == ImgAt(content.s) IN
         IF tags = {} THEN Undefined
         ELSE LET i == CHOOSE a \in tags : \A b \in tags : a <= b
                  srcs == SrcAt(content.s, i)
                  j == CHOOSE a \in srcs : \A b \in srcs : a >= b
              IN  Str(SubSeq(content.s, j + 5, ClosingQuote(content.s, j) - 1))

----------------------------------------------------------------------------
(* Normalizers *)

\* the value is passed on as it is
OrEmpty_AsIs(v) == v

\* x || ''
OrEmpty(v) == Or(v, Str(""))

normalizeItem(item) ==
    [t |-> "object",
     title |-> OrEmpty(Prop(item, "title")),
     link |-> OrEmpty(Prop(item, "link")),
     description |-> Or(Prop(item, "contentSnippet"), Prop(item, "description")),
     content |-> Or(Prop(item, "content"), Prop(item, "content:encoded")),
     pubDate |-> DateField(Prop(item, "pubDate")),
     guid |-> Or(Or(Prop(item, "guid"), Prop(item, "id")), Prop(item, "link")),
     author |-> Or(Prop(item, "author"), Prop(item, "creator")),
     categories |-> Or(Prop(item, "categories"), Arr(<< >>)),
     image |-> Or(Or(Prop(Prop(item, "thumbnail"), "url"),
                     Prop(Prop(Prop(item, "media:thumbnail"), "@"), "url")),
                  extractImageFromContent(Or(Prop(item, "content"),
                                             Prop(item, "description")))),
     enclosure |-> IF TruthyValue(Prop(item, "enclosure"))
                   THEN [t |-> "object",
                         url |-> Prop(Prop(item, "enclosure"), "url"),
                         type |-> Prop(Prop(item, "enclosure"), "type"),
                         length |-> Prop(Prop(item, "enclosure"), "length")]
                   ELSE Undefined]

normalizeJsonFeedItem(item) ==
    [t |-> "object",
     title |-> OrEmpty(Prop(item, "title")),
     link |-> OrEmpty(Or(Prop(item, "url"), Prop(item, "external_url"))),
     description |-> Prop(item, "summary"),
     content |-> Or(Prop(item, "content_html"), Prop(item, "content_text")),
     pubDate |-> DateField(Prop(item, "date_published")),
     guid |-> Or(Prop(item, "id"), Prop(item, "url")),
     author |-> Prop(First(Prop(item, "authors")), "name"),
     categories |-> Or(Prop(item, "tags"), Arr(<< >>)),
     image |-> Or(Prop(item, "image"), Prop(item, "banner_image")),
     enclosure |-> IF TruthyValue(First(Prop(item, "attachments")))
                   THEN [t |-> "object",
                         url |-> Prop(First(Prop(item, "attachments")), "url"),
                         type |-> Prop(First(Prop(item, "attachments")), "mime_type"),
                         length |-> Prop(First(Prop(item, "attachments")), "size_in_bytes")]
                   ELSE Undefined]

normalizeMetadata(feed) ==
    [t |-> "object",
     title |-> OrEmpty(Prop(feed, "title")),
     description |-> Prop(feed, "description"),
     link |-> OrEmpty(Or(Prop(feed, "link"), Prop(feed, "feedUrl"))),
     language |-> Prop(feed, "language"),
     copyright |-> Prop(feed, "copyright"),
     managingEditor |-> Prop(feed, "managingEditor"),
     webMaster |-> Prop(feed, "webMaster"),
     pubDate |-> DateField(Prop(feed, "pubDate")),
     lastBuildDate |-> DateField(Prop(feed, "lastBuildDate")),
     image |-> IF TruthyValue(Prop(feed, "image"))
               THEN [t |-> "object",
                     url |-> Or(Prop(Prop(feed, "image"), "url"), Prop(feed, "image")),
                     title |-> OrEmpty(Or(Prop(Prop(feed, "image"), "title"),
                                          Prop(feed, "title"))),
                     link |-> OrEmpty(Or(Prop(Prop(feed, "image"), "link"),
                                         Prop(feed, "link"))),
                     width |-> Prop(Prop(feed, "image"), "width"),
                     height |-> Prop(Prop(feed, "image"), "height")]
               ELSE Undefined]

\* the metadata object built from jsonData on the JSON Feed path
jsonFeedMetadata(jsonData) ==
    [t |-> "object",
     title |-> OrEmpty(Prop(jsonData, "title")),
     description |-> Prop(jsonData, "description"),
     link |-> OrEmpty(Prop(jsonData, "home_page_url")),
     language |-> Prop(jsonData, "language"),
     image |-> IF TruthyValue(Prop(jsonData, "icon"))
               THEN [t |-> "object",
                     url |-> Prop(jsonData, "icon"),
                     title |-> OrEmpty(Prop(jsonData, "title")),
                     link |-> OrEmpty(Prop(jsonData, "home_page_url"))]
               ELSE Undefined]

----------------------------------------------------------------------------
(* Raw inputs of the normalizers *)

\* an item as rss-parser hands it over
RssItem(title, link, snippet, description, content, encoded, pubDate, guid, id, author, creator, categories, thumbnail, mediaThumbnail, enclosure) ==
    [t |-> "object", title |-> title, link |-> link, contentSnippet |-> snippet,
     description |-> description, content |-> content, pubDate |-> pubDate,
     guid |-> guid, id |-> id, author |-> author, creator |-> creator,
     categories |-> categories, thumbnail |-> thumbnail, enclosure |-> enclosure]
    @@ ("content:encoded" :> encoded) @@ ("media:thumbnail" :> mediaThumbnail)

Titles == {Undefined, Str(""), Str("Post")}
Dates == {Undefined, Str("Fri, 02 Jan 1970 00:00:00 GMT"), Str("not a date")}
IsoDates == {Undefined, Str("1970-01-02T00:00:00.000Z"), Str("not a date")}
Categories == {Undefined, Arr(<<Str("news"), Str("tech")>>)}
Thumbnail == [t |-> "object", url |-> Str("http://e.org/t.png")]
MediaThumbnail ==
    [t |-> "object"] @@ ("@" :> [t |-> "object", url |-> Str("http://e.org/m.png")])
Enclosure ==
    [t |-> "object", url |-> Str("http://e.org/a.mp3"), type |-> Str("audio/mpeg"),
     length |-> Num(1234)]
Plain == Str("<p>Hello</p>")
WithImage == Str("<p><img class='a' src=\"http://e.org/i.png\"></p>")

\* items varying in their text fields, and items varying in their media
RssItems ==
    {RssItem(title, link, d[1], d[2], Undefined, Undefined, pubDate, g[1], g[2], a[1], a[2],
             categories, Undefined, Undefined, Undefined) :
        title \in Titles,
        link \in {Undefined, Str("http://e.org/1")},
        d \in {<<Undefined, Undefined>>, <<Str("Hello"), Plain>>, <<Undefined, Plain>>},
        pubDate \in Dates,
        g \in {<<Undefined, Undefined>>, <<Str("g1"), Undefined>>, <<Undefined, Str("id1")>>},
        a \in {<<Undefined, Undefined>>, <<Str("Ann"), Undefined>>, <<Undefined, Str("Bob")>>},
        categories \in Categories}
    \cup
    {RssItem(Str("Post"), Str("http://e.org/1"), Undefined, description, c[1], c[2],
             Undefined, Str("g1"), Undefined, Undefined, Undefined, Undefined,
             th[1], th[2], enclosure) :
        description \in {Undefined, Plain, WithImage},
        c \in {<<Undefined, Undefined>>, <<WithImage, Undefined>>, <<Plain, Undefined>>,
               <<Undefined, Plain>>},
        th \in {<<Undefined, Undefined>>, <<Thumbnail, Undefined>>,
                <<Undefined, MediaThumbnail>>},
        enclosure \in {Undefined, Enclosure}}

\* an item of a JSON Feed document
JsonItem(title, url, external_url, summary, content_html, content_text, date_published, id, authors, tags, image, banner_image, attachments) ==
    [t |-> "object", title |-> title, url |-> url, external_url |-> external_url,
     summary |-> summary, content_html |-> content_html, content_text |-> content_text,
     date_published |-> date_published, id |-> id, authors |-> authors, tags |-> tags,
     image |-> image, banner_image |-> banner_image, attachments |-> attachments]

Attachment ==
    [t |-> "object", url |-> Str("http://e.org/a.mp3"), mime_type |-> Str("audio/mpeg"),
     size_in_bytes |-> Num(1234)]

JsonItems ==
    {JsonItem(title, u[1], u[2], summary, Undefined, Undefined, date, id, authors, tags,
              Undefined, Undefined, Undefined) :
        title \in Titles \cup {Null},
        u \in {<<Undefined, Undefined>>, <<Str("http://e.org/1"), Undefined>>,
               <<Undefined, Str("http://other.org/x")>>,
               <<Str("http://e.org/1"), Str("http://other.org/x")>>},
        summary \in {Undefined, Str("Hello")},
        date \in IsoDates,
        id \in {Undefined, Str("id1")},
        authors \in {Undefined, Arr(<<[t |-> "object", name |-> Str("Ann")]>>)},
        tags \in Categories}
    \cup
    {JsonItem(Str("Post"), Str("http://e.org/1"), Undefined, Undefined, c[1], c[2],
              Undefined, Str("id1"), Undefined, Undefined, im[1], im[2], attachments) :
        c \in {<<Undefined, Undefined>>, <<Plain, Undefined>>, <<Undefined, Str("Hello")>>},
        im \in {<<Undefined, Undefined>>, <<Str("http://e.org/i.png"), Undefined>>,
                <<Undefined, Str("http://e.org/b.png")>>},
        attachments \in {Undefined, Arr(<<Attachment>>)}}

\* a feed as rss-parser hands it over (the fields normalizeMetadata reads)
RssFeed(title, link, feedUrl, description, pubDate, lastBuildDate, image) ==
    [t |-> "object", title |-> title, link |-> link, feedUrl |-> feedUrl,
     description |-> description, language |-> Str("en"), copyright |-> Undefined,
     managingEditor |-> Undefined, webMaster |-> Undefined, pubDate |-> pubDate,
     lastBuildDate |-> lastBuildDate, image |-> image]

FeedImages ==
    {Undefined, Str("http://e.org/logo.png"),
     [t |-> "object", url |-> Str("http://e.org/logo.png")],
     [t |-> "object", url |-> Str("http://e.org/logo.png"), title |-> Str("Logo"),
      link |-> Str("http://e.org/"), width |-> Num(88), height |-> Num(31)]}

RssFeeds ==
    {RssFeed(title, l[1], l[2], description, pubDate, lastBuildDate, image) :
        title \in Titles,
        l \in {<<Undefined, Undefined>>, <<Str("http://e.org/"), Undefined>>,
               <<Undefined, Str("http://e.org/atom.xml")>>},
        description \in {Undefined, Str("About")},
        pubDate \in Dates,
        lastBuildDate \in Dates,
        image \in FeedImages}

\* the top level of a JSON Feed document
JsonData(title, description, home_page_url, language, icon) ==
    [t |-> "object", version |-> Str("https://jsonfeed.org/version/1.1"), title |-> title,
     description |-> description, home_page_url |-> home_page_url,
     language |-> language, icon |-> icon]

JsonFeeds ==
    {JsonData(title, description, home_page_url, language, icon) :
        title \in Titles \cup {Null},
        description \in {Undefined, Str("About")},
        home_page_url \in {Undefined, Str("http://e.org/")},
        language \in {Undefined, Str("en")},
        icon \in {Undefined, Str("http://e.org/icon.png")}}

----------------------------------------------------------------------------
(* The normalizers on their own *)

ItemNormalizers == {"normalizeItem", "normalizeJsonFeedItem"}
MetadataNormalizers == {"normalizeMetadata", "jsonFeedMetadata"}
Normalizers == ItemNormalizers \cup MetadataNormalizers

InitNormalize ==
    /\ now = 0
    /\ cache = << >>
    /\ cleanupInterval = TRUE
    /\ inFlightRequests = [u \in URLs |-> NoEntry]
    /\ comps = << >>
    /\ issued = 0
    /\ last = Nothing
    /\ run = IdleRun
    /\ call \in {Call("normalizeItem", "called", item, Undefined) : item \in RssItems}
          \cup {Call("normalizeJsonFeedItem", "called", item, Undefined) : item \in JsonItems}
          \cup {Call("normalizeMetadata", "called", feed, Undefined) : feed \in RssFeeds}
          \cup {Call("jsonFeedMetadata", "called", jsonData, Undefined) :
                    jsonData \in JsonFeeds}

\* a first pass returns as "returned", a second pass as "returned again"
ReturnedAs(pc) == IF pc = "called" THEN "returned" ELSE "returned again"

NormalizeItem ==
    /\ call.fn = "normalizeItem"
    /\ call.pc \in {"called", "called again"}
    /\ call' = [call EXCEPT !.pc = ReturnedAs(call.pc), !.out = normalizeItem(call.arg)]
    /\ UNCHANGED <<now, cache, cleanupInterval, inFlightRequests, comps, issued, last, run>>

NormalizeJsonFeedItem ==
    /\ call.fn = "normalizeJsonFeedItem"
    /\ call.pc \in {"called", "called again"}
    /\ call' = [call EXCEPT !.pc = ReturnedAs(call.pc), !.out = normalizeJsonFeedItem(call.arg)]
    /\ UNCHANGED <<now, cache, cleanupInterval, inFlightRequests, comps, issued, last, run>>

NormalizeMetadata ==
    /\ call.fn = "normalizeMetadata"
    /\ call.pc \in {"called", "called again"}
    /\ call' = [call EXCEPT !.pc = ReturnedAs(call.pc), !.out = normalizeMetadata(call.arg)]
    /\ UNCHANGED <<now, cache, cleanupInterval, inFlightRequests, comps, issued, last, run>>

JsonFeedMetadata ==
    /\ call.fn = "jsonFeedMetadata"
    /\ call.pc \in {"called", "called again"}
    /\ call' = [call EXCEPT !.pc = ReturnedAs(call.pc), !.out = jsonFeedMetadata(call.arg)]
    /\ UNCHANGED <<now, cache, cleanupInterval, inFlightRequests, comps, issued, last, run>>

\* the object a normalizer returned is passed to it again as its raw input
FeedBack ==
    /\ call.fn \in Normalizers
    /\ call.pc = "returned"
    /\ call' = [call EXCEPT !.pc = "called again", !.arg = call.out]
    /\ UNCHANGED <<now, cache, cleanupInterval, inFlightRequests, comps, issued, last, run>>

NextNormalize ==
    \/ NormalizeItem
    \/ NormalizeJsonFeedItem
    \/ NormalizeMetadata
    \/ JsonFeedMetadata
    \/ FeedBack

SpecNormalize == InitNormalize /\ [][NextNormalize]_vars

----------------------------------------------------------------------------
(* fetchWithTimeout (backend/src/utils/httpClient.ts) *)

DEFAULT_TIMEOUT == 30000

\* options?.timeout ?? DEFAULT_TIMEOUT; -1 stands for no timeout option
EffectiveTimeout(timeout) == IF timeout = -1 THEN DEFAULT_TIMEOUT ELSE timeout

\* `Request timeout: Request to ${url} exceeded ${timeout}ms`
TimeoutMessage(url, timeout) ==
    "Request timeout: Request to " \o url \o " exceeded " \o ToString(timeout) \o "ms"

\* the error caught from fetch is thrown on as it is
fetchCatch_Rethrows(name, message, url, timeout) == message

\* the catch block: the message of the error it throws
fetchCatch(name, message, url, timeout) ==
    IF name = "AbortError" \/ includes(message, "aborted")
    THEN TimeoutMessage(url, timeout)
    ELSE message

\* a fetchWithTimeout call in progress: whether the timer set by setTimeout
\* is still pending, whether controller.abort() has run, the status of the
\* response it resolved with, the message of the error it rejected with, and
\* what parseError makes of that message
Fetching(timer, aborted, status, error, class) ==
    [timer |-> timer, aborted |-> aborted, status |-> status, error |-> error,
     class |-> class]

FetchArg(url, timeout) == [url |-> url, timeout |-> timeout]

\* URLs fetched; the second holds substrings the classifier looks for
FetchURLs == {"a", "http://cors.example/parse.xml"}
\* the timeout option: none, the value parseFeedInternal passes, another one
TimeoutOptions == {-1, DEFAULT_TIMEOUT, 5000}
\* errors node-fetch rejects with when nothing was aborted: name and message
TransportErrors ==
    {<<"FetchError", "request to a failed, reason: connect ECONNREFUSED 10.0.0.1:443">>,
     <<"FetchError", "request to a failed, reason: getaddrinfo ENOTFOUND a">>,
     <<"FetchError", "request to a failed, reason: socket hang up">>,
     <<"Error", "aborted">>,
     <<"TypeError", "Only absolute URLs are supported">>}
\* the rejection of fetch after controller.abort()
AbortError == <<"AbortError", "The user aborted a request.">>

InitFetch ==
    /\ now = 0
    /\ cache = << >>
    /\ cleanupInterval = TRUE
    /\ inFlightRequests = [u \in URLs |-> NoEntry]
    /\ comps = << >>
    /\ issued = 0
    /\ last = Nothing
    /\ run = IdleRun
    /\ call \in {Call("fetchWithTimeout", "awaiting", FetchArg(url, timeout),
                       Fetching(TRUE, FALSE, 0, "", NoError)) :
                    url \in FetchURLs, timeout \in TimeoutOptions}

\* fetch resolves with a response: clearTimeout, return response
FetchResolves(status) ==
    /\ call.fn = "fetchWithTimeout"
    /\ call.pc = "awaiting"
    /\ ~call.out.aborted
    /\ call' = [call EXCEPT !.pc = "resolved", !.out.timer = FALSE, !.out.status = status]
    /\ UNCHANGED <<now, cache, cleanupInterval, inFlightRequests, comps, issued, last, run>>

\* fetch rejects on its own: the catch block runs
FetchRejects(e) ==
    /\ call.fn = "fetchWithTimeout"
    /\ call.pc = "awaiting"
    /\ ~call.out.aborted
    /\ call' = [call EXCEPT !.pc = "rejected", !.out.timer = FALSE,
                            !.out.error = fetchCatch(e[1], e[2], call.arg.url,
                                                     EffectiveTimeout(call.arg.timeout))]
    /\ UNCHANGED <<now, cache, cleanupInterval, inFlightRequests, comps, issued, last, run>>

\* the timer fires before fetch has settled: controller.abort()
TimerFires ==
    /\ call.fn = "fetchWithTimeout"
    /\ call.pc = "awaiting"
    /\ call.out.timer
    /\ call' = [call EXCEPT !.out.timer = FALSE, !.out.aborted = TRUE]
    /\ UNCHANGED <<now, cache, cleanupInterval, inFlightRequests, comps, issued, last, run>>

\* the aborted fetch rejects with an AbortError: the catch block runs
AbortRejects ==
    /\ call.fn = "fetchWithTimeout"
    /\ call.pc = "awaiting"
    /\ call.out.aborted
    /\ call' = [call EXCEPT !.pc = "rejected", !.out.timer = FALSE,
                            !.out.error = fetchCatch(AbortError[1], AbortError[2],
                                                     call.arg.url,
                                                     EffectiveTimeout(call.arg.timeout))]
    /\ UNCHANGED <<now, cache, cleanupInterval, inFlightRequests, comps, issued, last, run>>

\* parseError is given the error of the rejection, with no HTTP status
ClassifyRejection ==
    /\ call.fn = "fetchWithTimeout"
    /\ call.pc = "rejected"
    /\ call' = [call EXCEPT !.pc = "classified", !.out.class = parseError(call.out.error, 0)]
    /\ UNCHANGED <<now, cache, cleanupInterval, inFlightRequests, comps, issued, last, run>>

NextFetch ==
    \/ \E status \in Statuses : FetchResolves(status)
    \/ \E e \in TransportErrors : FetchRejects(e)
    \/ TimerFires
    \/ AbortRejects
    \/ ClassifyRejection

SpecFetch == InitFetch /\ [][NextFetch]_vars

----------------------------------------------------------------------------
(* Properties *)

Pending(c) == comps[c].status = "pending"
CompIds == 1..Len(comps)

\* the step is a parseFeed(u, useCache) call
IsCall(u, useCache) ==
    /\ issued' = issued + 1
    /\ last'.url = u
    /\ last'.useCache = useCache

\* the step is the completion of computation c
IsCompletion(c) ==
    /\ c \in CompIds
    /\ Pending(c)
    /\ comps'[c].status \in {"fulfilled", "rejected"}

CachedResult(c, u) == c[IndexOf(c, u)].result

\* C1: in every reachable state, whatever the interleaving of parseFeed
\* calls, completions, clearCache() and destroy(), at most one computation is
\* pending per URL.
C1_OnePendingPerUrl ==
    \A c1, c2 \in CompIds :
        (Pending(c1) /\ Pending(c2) /\ comps[c1].url = comps[c2].url) => c1 = c2

C3_FailureCached ==
    [][ \A c \in CompIds :
          ( /\ IsCompletion(c)
            /\ comps[c].useCache
            /\ comps'[c].status = "fulfilled"
            /\ ~comps'[c].result.success )
          => ( /\ IndexOf(cache', comps[c].url) # 0
               /\ CachedResult(cache', comps[c].url) = comps'[c].result ) ]_vars

\* C3 amended: a completion with a failure leaves the cache as it was, every
\* cached result is a success, and so no call is answered from the cache with
\* a failure.
C3_FailuresNotCached ==
    /\ [][ \A c \in CompIds :
             ( /\ IsCompletion(c)
               /\ comps'[c].status = "fulfilled"
               /\ ~comps'[c].result.success )
             => cache' = cache ]_vars
    /\ [](\A i \in 1..Len(cache) : cache[i].result.success)
    /\ [](last.via = "cache" => last.got.success)

\* a useCache = true computation has failed and, within the TTL, a later
\* useCache = true call for the same URL has started a new computation
C3_Witness ==
    \E c1, c2 \in CompIds :
        /\ c1 < c2
        /\ comps[c1].url = comps[c2].url
        /\ comps[c1].useCache
        /\ comps[c1].status = "fulfilled"
        /\ ~comps[c1].result.success
        /\ Pending(c2)
        /\ last = Handed(comps[c2].url, TRUE, "started", c2, NoResult)
        /\ now <= ttl

\* C4 as claimed: when a computation started by a useCache = false call
\* completes with success, the cache holds its result for the URL afterwards.
C4_BypassPopulates ==
    [][ \A c \in CompIds :
          ( /\ IsCompletion(c)
            /\ ~comps[c].useCache
            /\ comps'[c].status = "fulfilled"
            /\ comps'[c].result.success )
          => ( /\ IndexOf(cache', comps[c].url) # 0
               /\ CachedResult(cache', comps[c].url) = comps'[c].result ) ]_vars

\* C4 amended: the completion of a computation started by a useCache = false
\* call leaves the cache unchanged, and no cached result was created by such a
\* computation.
C4_BypassSkipsWrite ==
    /\ [][ \A c \in CompIds :
             (IsCompletion(c) /\ ~comps[c].useCache) => cache' = cache ]_vars
    /\ [](\A i \in 1..Len(cache), c \in CompIds :
             (cache[i].result.id = c /\ comps[c].status = "fulfilled")
             => comps[c].useCache)

\* a bypassing call's computation has succeeded and its URL is not cached
C4_Witness ==
    \E c \in CompIds :
        /\ ~comps[c].useCache
        /\ comps[c].status = "fulfilled"
        /\ comps[c].result.success
        /\ IndexOf(cache, comps[c].url) = 0

\* C5: a computation that has completed is no longer in the tracker, from
\* the completion on and so before any of its waiters is resumed; a call
\* therefore never joins a finished computation.
C5_TrackerHoldsOnlyPending ==
    /\ [](\A u \in URLs :
            inFlightRequests[u] # NoEntry
            => ( /\ inFlightRequests[u] \in CompIds
                 /\ Pending(inFlightRequests[u]) ))
    /\ [][ \A u \in FeedURLs, uc \in BOOLEAN :
             (IsCall(u, uc) /\ last'.via = "joined")
             => (last'.comp \in CompIds /\ Pending(last'.comp)) ]_vars

\* a computation two callers wait on has completed and left the tracker, and
\* neither has been resumed yet
C5_Witness ==
    \E c \in CompIds :
        /\ comps[c].status = "fulfilled"
        /\ comps[c].waiters = 2
        /\ issued = 2
        /\ inFlightRequests[comps[c].url] = NoEntry

\* the entry the cache holds for u
EntryOf(c, u) == c[IndexOf(c, u)]

\* C6 as claimed: a useCache = true call for a URL whose entry was stored at
\* ts is answered with the stored result iff now - ts <= ttl; past that the
\* entry is removed and the call starts a fresh fetch.
C6_ExpiredStartsFetch ==
    [][ \A u \in FeedURLs :
          (IsCall(u, TRUE) /\ IndexOf(cache, u) # 0)
          => IF now - EntryOf(cache, u).timestamp <= ttl
             THEN /\ last'.via = "cache"
                  /\ last'.got = EntryOf(cache, u).result
                  /\ comps' = comps
             ELSE /\ IndexOf(cache', u) = 0
                  /\ last'.via = "started"
                  /\ Len(comps') = Len(comps) + 1 ]_vars

\* C6 amended: as claimed, except that past the TTL the call joins the
\* computation pending for the URL when the tracker holds one, and starts a
\* fresh fetch only otherwise.
C6_ExpiredJoinsOrStarts ==
    [][ \A u \in FeedURLs :
          (IsCall(u, TRUE) /\ IndexOf(cache, u) # 0)
          => IF now - EntryOf(cache, u).timestamp <= ttl
             THEN /\ last'.via = "cache"
                  /\ last'.got = EntryOf(cache, u).result
                  /\ comps' = comps
             ELSE /\ IndexOf(cache', u) = 0
                  /\ IF inFlightRequests[u] = NoEntry
                     THEN /\ last'.via = "started"
                          /\ Len(comps') = Len(comps) + 1
                          /\ inFlightRequests'[u] = Len(comps')
                          /\ comps'[Len(comps')].status = "pending"
                     ELSE /\ last'.via = "joined"
                          /\ last'.comp = inFlightRequests[u]
                          /\ Len(comps') = Len(comps) ]_vars

\* a call has just been answered from an entry whose age is exactly the TTL
C6_Witness ==
    /\ last.via = "cache"
    /\ IndexOf(cache, last.url) # 0
    /\ now - EntryOf(cache, last.url).timestamp = ttl
    /\ EntryOf(cache, last.url).accessTime = now
    /\ last.got = EntryOf(cache, last.url).result

\* C7: when set inserts a URL that is not in a full cache, exactly one entry
\* is evicted, and it is the one whose latest get-hit or set is the oldest.
C7_EvictsLeastRecentlyUsed ==
    [][ \A u \in URLs :
          ( /\ IndexOf(cache, u) = 0
            /\ IndexOf(cache', u) # 0
            /\ Len(cache) >= maxSize )
          => \E i \in 1..Len(cache) :
               /\ \A j \in 1..Len(cache) : cache[i].accessTime <= cache[j].accessTime
               /\ CacheKeys(cache') = (CacheKeys(cache) \ {cache[i].url}) \cup {u}
               /\ \A j \in 1..Len(cache) :
                    j # i => EntryOf(cache', cache[j].url) = cache[j] ]_vars

\* C8: the cache never holds more entries than its capacity.
C8_SizeWithinCapacity == Len(cache) <= maxSize

\* C9: parseFeedInternal always settles by resolving to a FeedParseResult,
\* a success or a failure with a message, and never by rejecting.
C9_NeverRejects ==
    run.pc = "done"
    => ( /\ ~run.out.rejected
         /\ run.out.result # NoResult
         /\ run.out.result.success = (run.out.result.error = NoError) )

\* both the XML attempt and the JSON Feed fetch threw, and the run resolved
\* to a failure
C9_Witness ==
    /\ run.pc = "done"
    /\ run.env.xml = "throws"
    /\ run.env.fetch = "throws"
    /\ ~run.out.rejected
    /\ ~run.out.result.success
    /\ run.out.result.error.type = "network"

\* the run parsed a document, on the XML path or on the JSON Feed path
ParsedDoc(env) ==
    \/ env.xml = "feed"
    \/ env.xml = "throws" /\ env.fetch = "response" /\ ResponseOk(env.status)
       /\ env.body = "jsonfeed"

\* C10: a feed that passes the item cap yields a success iff the exact
\* serialized size of its normalized form is at most MAX_FEED_SIZE_BYTES.
C10_SuccessIffExactWithinCap ==
    ( /\ run.pc = "done"
      /\ ParsedDoc(run.env)
      /\ run.env.doc.items >= 0
      /\ run.env.doc.items <= MAX_FEED_ITEMS )
    => (run.out.result.success <=> run.env.doc.exact <= MAX_FEED_SIZE_BYTES)

\* the run took the JSON Feed path and parsed a JSON Feed document
ParsedJson(env) == ParsedDoc(env) /\ env.xml = "throws"

ItemCountFailure(r) == ~r.success /\ r.error.type = "item-count-exceeded"

\* C11: on the RSS/Atom path and on the JSON Feed path, a feed with more than
\* MAX_FEED_ITEMS items resolves to the item-count failure with no item
\* normalized, and a feed with exactly MAX_FEED_ITEMS items is not rejected
\* by the item-count check: all its items are normalized.
C11_CapBeforeNormalization ==
    (run.pc = "done" /\ ParsedDoc(run.env))
    => ( /\ run.env.doc.items > MAX_FEED_ITEMS
            => ( /\ run.out.result = ItemsError(1, run.env.doc.items)
                 /\ run.normalized = 0 )
         /\ run.env.doc.items = MAX_FEED_ITEMS
            => ( /\ ~ItemCountFailure(run.out.result)
                 /\ run.normalized = MAX_FEED_ITEMS ) )

\* a JSON Feed document of 1001 items was rejected with nothing normalized
C11_Witness ==
    /\ run.pc = "done"
    /\ ParsedJson(run.env)
    /\ run.env.doc.items = MAX_FEED_ITEMS + 1
    /\ run.out.result = ItemsError(1, MAX_FEED_ITEMS + 1)
    /\ run.normalized = 0

\* parseError has returned
Classified == call.fn = "parseError" /\ call.pc = "returned"

\* C12 as claimed: whenever an HTTP status is supplied, whatever its value
\* and whatever the error text, the category is http and the message embeds
\* the status.
C12_StatusAlwaysHttp ==
    (Classified /\ call.arg.httpStatus # 0)
    => (call.out.type = "http" /\ call.out.n = call.arg.httpStatus)

\* C12 amended: a supplied status of 400 or more gives the category http with
\* the status embedded, whatever the error text; a supplied status below 400
\* is classified as the same text with no status is.
C12_ErrorStatusIsHttp ==
    (Classified /\ call.arg.httpStatus # 0)
    => IF call.arg.httpStatus >= 400
       THEN call.out.type = "http" /\ call.out.n = call.arg.httpStatus
       ELSE call.out = parseError(call.arg.errorMessage, 0)

\* status 404 came with a text of the network class and the category is http
C12_Witness ==
    /\ Classified
    /\ call.arg.httpStatus = 404
    /\ includes(toLowerCase(call.arg.errorMessage), "econnrefused")
    /\ call.out = ErrorInfo("http", "notfound", 404)

\* the substrings the claim counts as network class
NetworkClass == NetworkNeedles \cup TlsNeedles

\* C13: with no HTTP status, a text with a network-class substring (TLS, SSL
\* and certificate included) is classified network even when it also has a
\* cors- or parse-class substring; otherwise a text with a cors-class
\* substring is cors, otherwise one with a parse-class substring is parse, and
\* a text with no substring of any class is unknown.
C13_TextOrder ==
    (Classified /\ call.arg.httpStatus = 0)
    => LET errorString == toLowerCase(call.arg.errorMessage) IN
       IF IncludesAny(errorString, NetworkClass) THEN call.out.type = "network"
       ELSE IF IncludesAny(errorString, CorsNeedles) THEN call.out.type = "cors"
       ELSE IF IncludesAny(errorString, ParseNeedles) THEN call.out.type = "parse"
       ELSE IF IncludesAny(errorString, RateNeedles) THEN TRUE
       ELSE call.out.type = "unknown"

\* inFlightRequests.size
InFlightCount == Cardinality({u \in URLs : inFlightRequests[u] # NoEntry})

\* C14: when destroy() returns the sweep timer is stopped and the cache and
\* the in-flight tracker are empty, and no later operation sets the timer
\* again.
C14_DestroyStopsTimer ==
    /\ [][ Destroy => ( /\ ~cleanupInterval'
                        /\ CacheSize(cache') = 0
                        /\ \A u \in URLs : inFlightRequests'[u] = NoEntry ) ]_vars
    /\ [][ ~cleanupInterval => ~cleanupInterval' ]_vars

\* destroy() has run after a result was cached and while a computation was
\* pending: the timer is off and the cache and the tracker are empty
C14_Witness ==
    /\ ~cleanupInterval
    /\ CacheSize(cache) = 0
    /\ InFlightCount = 0
    /\ \E c1, c2 \in CompIds :
         /\ comps[c1].status = "fulfilled" /\ comps[c1].useCache
         /\ comps[c1].result.success
         /\ Pending(c2)

\* a normalizer has returned from its first pass, over a raw input
Normalized(fns) == call.fn \in fns /\ call.pc = "returned"

IsString(v) == v.t = "string"
Absent(v) == v.t \in {"undefined", "null"}

\* the source fields the normalized link is taken from
LinkSources(fn) == IF fn = "normalizeItem" THEN {"link"} ELSE {"url", "external_url"}

\* C15: for every raw input of either format the normalized metadata has a
\* string title and every normalized item a string title and a string link,
\* and an absent source value gives the empty string.
C15_TitleAndLinkAreStrings ==
    /\ Normalized(Normalizers)
       => ( /\ IsString(call.out.title)
            /\ Absent(Prop(call.arg, "title")) => call.out.title = Str("") )
    /\ Normalized(ItemNormalizers)
       => ( /\ IsString(call.out.link)
            /\ (\A f \in LinkSources(call.fn) : Absent(Prop(call.arg, f)))
               => call.out.link = Str("") )

\* an RSS item with neither title nor link was normalized to empty strings
C15_Witness ==
    /\ Normalized({"normalizeItem"})
    /\ call.arg.title = Undefined
    /\ call.arg.link = Undefined
    /\ call.arg.guid = Str("g1")
    /\ call.out.title = Str("")
    /\ call.out.link = Str("")

\* the explicit identifier of a raw item
ExplicitId(fn, item) ==
    IF fn = "normalizeItem" THEN Or(Prop(item, "guid"), Prop(item, "id"))
    ELSE Prop(item, "id")

\* C16: for either item normalizer, a non-empty normalized link comes with a
\* non-empty normalized guid: the explicit id/guid when present, otherwise
\* the link.
C16_GuidWheneverLink ==
    (Normalized(ItemNormalizers) /\ call.out.link # Str(""))
    => ( /\ IsString(call.out.guid)
         /\ call.out.guid # Str("")
         /\ call.out.guid = IF TruthyValue(ExplicitId(call.fn, call.arg))
                            THEN ExplicitId(call.fn, call.arg)
                            ELSE call.out.link )

\* the date fields of a normalizer: <<source field, normalized field>>
DateFields(fn) ==
    CASE fn = "normalizeItem" -> {<<"pubDate", "pubDate">>}
      [] fn = "normalizeJsonFeedItem" -> {<<"date_published", "pubDate">>}
      [] fn = "normalizeMetadata" -> {<<"pubDate", "pubDate">>,
                                      <<"lastBuildDate", "lastBuildDate">>}
      [] OTHER -> {}

Unparseable(v) == IsString(v) /\ v.s # "" /\ v.s \notin DOMAIN DateStrings

\* C17: a source date that is present but unparseable gives an absent
\* (undefined) normalized date: the normalizer returns, and the field is not
\* a Date that is invalid.
C17_UnparseableDateAbsent ==
    Normalized(Normalizers)
    => \A d \in DateFields(call.fn) :
          Unparseable(Prop(call.arg, d[1])) => call.out[d[2]] = Undefined

\* a field that holds something
Populated(v) == TruthyValue(v) /\ v # Arr(<< >>)

\* C18: a normalized item or metadata record passed through the same
\* normalizer again comes back with the same value in every populated field.
C18_Idempotent ==
    (call.fn \in Normalizers /\ call.pc = "returned again")
    => \A f \in DOMAIN call.arg \ {"t"} :
          Populated(call.arg[f]) => call.out[f] = call.arg[f]

\* no computation is pending
AllSettled == \A c \in CompIds : ~Pending(c)

\* C19: given that every fetch terminates, an entry registered in the
\* tracker is eventually removed, every computation completes (in the end
\* none is pending), and the in-flight count is 0 whenever no computation is
\* pending, and for good in the end.
C19_EntriesEventuallyRemoved ==
    /\ \A u \in FeedURLs :
          (inFlightRequests[u] # NoEntry) ~> (inFlightRequests[u] = NoEntry)
    /\ <>[](AllSettled /\ InFlightCount = 0)
    /\ [](AllSettled => InFlightCount = 0)

\* one computation has ended in success and one in failure, none is pending
\* and the tracker is empty
C19_Witness ==
    /\ InFlightCount = 0
    /\ AllSettled
    /\ \E c1, c2 \in CompIds :
         /\ comps[c1].status = "fulfilled" /\ comps[c1].result.success
         /\ comps[c1].waiters > 0
         /\ comps[c2].status = "fulfilled" /\ ~comps[c2].result.success
         /\ comps[c2].waiters > 0

\* C20: the JSON Feed fetch is issued only once the XML attempt has thrown:
\* none has been issued while parser.parseURL is awaited, a fetch is issued
\* only by the step in which the attempt throws, and a run whose XML attempt
\* parses a feed with items never issues one, whether it ends in success, in
\* the item-count failure or in the size failure.
C20_FetchOnlyAfterXmlThrew ==
    /\ [](run.pc = "xml" => run.fetches = 0)
    /\ [][ run'.fetches # run.fetches
            => ( /\ run.pc = "xml"
                 /\ xmlAttempt(1, run.env).kind = "throw"
                 /\ run'.pc = "fetch"
                 /\ run'.fetches = 1 ) ]_vars
    /\ []((run.env.xml = "feed" /\ run.env.doc.items >= 0)
          => ( /\ run.fetches = 0
               /\ run.pc = "done"
                  => run.out.result \in {ItemsError(1, run.env.doc.items),
                                         SizeError(1, run.env.doc.exact),
                                         Success(1, run.env.doc)} ))

\* an RSS feed over the size cap was answered with the size failure and no
\* JSON Feed fetch
C20_Witness ==
    /\ run.pc = "done"
    /\ run.env.xml = "feed"
    /\ run.out.result = SizeError(1, run.env.doc.exact)
    /\ run.fetches = 0

\* the JSON fallback of the run fails: the fetch throws, the response is not
\* OK, its body is not JSON, or it is JSON without the JSON Feed marker
JsonFallbackFails(env) ==
    \/ env.fetch = "throws"
    \/ ~ResponseOk(env.status)
    \/ env.body \in {"invalid", "json"}

\* the HTTP status captured on the JSON path (0: none)
CapturedStatus(env) == IF env.fetch = "throws" THEN env.fetchStatus ELSE env.status

\* C21: when the XML attempt throws and the JSON fallback fails, the failure
\* returned is the classification of the XML attempt's error together with
\* the HTTP status captured on the JSON path; the text of the JSON-path error
\* has no part in it.
C21_OriginalErrorClassified ==
    ( /\ run.pc = "done"
      /\ xmlAttempt(1, run.env).kind = "throw"
      /\ JsonFallbackFails(run.env) )
    => run.out.result =
         Result(1, FALSE,
                parseError(xmlAttempt(1, run.env).error, CapturedStatus(run.env)), 0)

\* the XML parser rejected the document with a text of no class, the URL
\* answered 200 with a body that is not JSON (an error text of the parse
\* class), and the failure returned is of category unknown
C21_Witness ==
    /\ run.pc = "done"
    /\ run.env.xml = "throws"
    /\ run.env.xmlError = "Non-whitespace before first tag."
    /\ run.env.fetch = "response"
    /\ run.env.status = 200
    /\ run.env.body = "invalid"
    /\ run.out.result = Result(1, FALSE, ErrorInfo("unknown", "generic", 0), 0)

\* C22: a sweep at time now removes exactly the entries with
\* now - timestamp > ttl, read or not; every other entry stays as it was, in
\* the same relative order, and nothing is added.
C22_SweepRemovesExpired ==
    [][ Sweep
        => ( /\ \A i \in 1..Len(cache) :
                  IF now - cache[i].timestamp > ttl
                  THEN IndexOf(cache', cache[i].url) = 0
                  ELSE /\ IndexOf(cache', cache[i].url) # 0
                       /\ EntryOf(cache', cache[i].url) = cache[i]
             /\ \A i, j \in 1..Len(cache) :
                  ( /\ i < j
                    /\ IndexOf(cache', cache[i].url) # 0
                    /\ IndexOf(cache', cache[j].url) # 0 )
                  => IndexOf(cache', cache[i].url) < IndexOf(cache', cache[j].url)
             /\ CacheKeys(cache') \subseteq CacheKeys(cache) ) ]_vars

\* the cache at the end of the clock: an entry that had been read is gone,
\* and the one entry left is of age ttl exactly
C22_Witness ==
    /\ cleanupInterval
    /\ now = MaxTime
    /\ Len(cache) = 1
    /\ now - cache[1].timestamp = ttl
    /\ last.via = "get"
    /\ last.got # NoResult
    /\ last.url # cache[1].url

\* C23: a parseFeed call for a URL that is not answered from the cache and has
\* no tracker entry starts its own computation in the same step while
\* computations for other URLs are pending, and these stay pending; and any
\* pending computation can complete whatever else is pending.
C23_UrlsNotSerialized ==
    /\ [][ \A u \in FeedURLs :
             ( /\ \E uc \in BOOLEAN : IsCall(u, uc)
               /\ last'.via # "cache"
               /\ inFlightRequests[u] = NoEntry
               /\ \E c \in CompIds : Pending(c) /\ comps[c].url # u )
             => ( /\ last'.via = "started"
                  /\ Len(comps') = Len(comps) + 1
                  /\ comps'[Len(comps')].url = u
                  /\ comps'[Len(comps')].status = "pending"
                  /\ inFlightRequests'[u] = Len(comps')
                  /\ \A c \in CompIds : comps'[c] = comps[c]
                  /\ \A v \in FeedURLs \ {u} :
                       inFlightRequests'[v] = inFlightRequests[v] ) ]_vars
    /\ [](\A c \in CompIds :
            Pending(c) => ENABLED (\E env \in ServiceEnvs : Complete(c, env)))

\* the computation for one URL, started second, has completed while the
\* computation for the other URL, started first, is still pending
C23_Witness ==
    /\ Len(comps) = 2
    /\ comps[1].url # comps[2].url
    /\ Pending(1)
    /\ inFlightRequests[comps[1].url] = 1
    /\ comps[2].status = "fulfilled"
    /\ comps[2].waiters = 1
    /\ issued = 2

\* the fetchWithTimeout call has settled
FetchSettled == call.fn = "fetchWithTimeout" /\ call.pc \in {"resolved", "rejected", "classified"}

\* C24: when the timer fires before fetch has settled the call rejects, with
\* the timeout message, whose text holds "timeout"; parseError given that
\* message and no HTTP status returns the category network; and no timer is
\* pending once the call has settled, however it settled.
C24_TimeoutIsNetwork ==
    /\ (FetchSettled /\ call.out.aborted)
       => ( /\ call.pc # "resolved"
            /\ call.out.error
                 = TimeoutMessage(call.arg.url, EffectiveTimeout(call.arg.timeout))
            /\ includes(toLowerCase(call.out.error), "timeout") )
    /\ (FetchSettled /\ call.out.aborted /\ call.pc = "classified")
       => call.out.class.type = "network"
    /\ FetchSettled => ~call.out.timer

\* the default timeout ran out on a URL that holds "cors" and "parse", and
\* the rejection was classified network
C24_Witness ==
    /\ FetchSettled
    /\ call.pc = "classified"
    /\ call.out.aborted
    /\ call.arg.timeout = -1
    /\ call.out.error
         = "Request timeout: Request to http://cors.example/parse.xml exceeded 30000ms"
    /\ call.out.class = ErrorInfo("network", "connection", 0)

\* C25: set(url, result) for a URL already in the cache evicts no other
\* entry, even when the cache is full: the set of keys is unchanged, the
\* other entries are as they were, and the entry for url has the new result,
\* a fresh timestamp and the most recently used position.
C25_ResetEvictsNothing ==
    [][ \A u \in URLs, r \in CacheResults :
          (LRUSet(u, r) /\ IndexOf(cache, u) # 0)
          => ( /\ CacheKeys(cache') = CacheKeys(cache)
               /\ \A j \in 1..Len(cache) :
                    cache[j].url # u => EntryOf(cache', cache[j].url) = cache[j]
               /\ cache'[Len(cache')]
                    = [url |-> u, result |-> r, timestamp |-> now, accessTime |-> now] ) ]_vars

\* the same for caches within their capacity
C25_ResetWithinCapacity ==
    [][ \A u \in URLs, r \in CacheResults :
          (LRUSet(u, r) /\ IndexOf(cache, u) # 0 /\ Len(cache) <= maxSize)
          => ( /\ CacheKeys(cache') = CacheKeys(cache)
               /\ \A j \in 1..Len(cache) :
                    cache[j].url # u => EntryOf(cache', cache[j].url) = cache[j]
               /\ cache'[Len(cache')]
                    = [url |-> u, result |-> r, timestamp |-> now, accessTime |-> now] ) ]_vars

\* C26: a parseFeed(url, TRUE) call that finds an unexpired entry for url in
\* the cache returns that entry's result; it joins no computation and starts
\* none, and the tracker is as before, also when a computation for url is
\* pending.
C26_CacheHitBypassesTracker ==
    [][ \A u \in FeedURLs :
          ( /\ ParseFeed(u, TRUE)
            /\ IndexOf(cache, u) # 0
            /\ ~Expired(EntryOf(cache, u), now) )
          => ( /\ last' = Handed(u, TRUE, "cache", 0, EntryOf(cache, u).result)
               /\ comps' = comps
               /\ inFlightRequests' = inFlightRequests ) ]_vars

\* the latest call was answered from the cache while a computation for its
\* URL is pending, registered in the tracker and held by its starter alone
C26_Witness ==
    /\ last.via = "cache"
    /\ last.useCache
    /\ inFlightRequests[last.url] # NoEntry
    /\ Pending(inFlightRequests[last.url])
    /\ comps[inFlightRequests[last.url]].url = last.url
    /\ comps[inFlightRequests[last.url]].waiters = 1
    /\ last.got = EntryOf(cache, last.url).result

\* C27: a get that hits leaves the entry's timestamp and result as they were,
\* sets its accessTime, moves it to the most recently used position and
\* leaves the other entries alone; only set gives an entry its timestamp, the
\* time of the call; and whatever its accessTime, a get hits an entry of
\* age up to ttl since that timestamp and misses and removes an older one.
C27_HitKeepsTimestamp ==
    [][ \A u \in URLs :
          /\ (LRUGet(u) /\ IndexOf(cache, u) # 0 /\ now - EntryOf(cache, u).timestamp <= ttl)
             => ( /\ last'.got = EntryOf(cache, u).result
                  /\ cache'[Len(cache')] = [EntryOf(cache, u) EXCEPT !.accessTime = now]
                  /\ CacheKeys(cache') = CacheKeys(cache)
                  /\ \A j \in 1..Len(cache) :
                       cache[j].url # u => EntryOf(cache', cache[j].url) = cache[j] )
          /\ (LRUGet(u) /\ IndexOf(cache, u) # 0 /\ now - EntryOf(cache, u).timestamp > ttl)
             => ( /\ last'.got = NoResult
                  /\ IndexOf(cache', u) = 0 )
          /\ (\E r \in CacheResults : LRUSet(u, r))
             => EntryOf(cache', u).timestamp = now
          /\ ( /\ IndexOf(cache, u) # 0
               /\ IndexOf(cache', u) # 0
               /\ ~(\E r \in CacheResults : LRUSet(u, r)) )
             => EntryOf(cache', u).timestamp = EntryOf(cache, u).timestamp ]_vars

\* the latest get hit an entry after the time it was set; now the entry is
\* older than ttl though it was read less than ttl ago
C27_Witness ==
    /\ last.via = "get"
    /\ last.got # NoResult
    /\ IndexOf(cache, last.url) # 0
    /\ EntryOf(cache, last.url).accessTime > EntryOf(cache, last.url).timestamp
    /\ now - EntryOf(cache, last.url).timestamp > ttl
    /\ now - EntryOf(cache, last.url).accessTime <= ttl

\* C28: the completion of computation c removes from the tracker no entry
\* but the one c registered: an entry that names another computation is
\* still there afterwards.
C28_RemovesOnlyOwnEntry ==
    [][ \A c \in CompIds :
          (Pending(c) /\ \E env \in ServiceEnvs : Complete(c, env))
          => \A u \in URLs :
               (inFlightRequests[u] # NoEntry /\ inFlightRequests[u] # c)
               => inFlightRequests'[u] = inFlightRequests[u] ]_vars

\* C29: when destroy has been called and no parseFeed call was issued after
\* it, the cache and the tracker are empty, also once the computations that
\* were pending at destroy have completed.
C29_StaysEmptyAfterDestroy ==
    ~cleanupInterval
    => ( /\ cache = << >>
         /\ \A u \in URLs : inFlightRequests[u] = NoEntry )

\* the tracker part of C29
C29_TrackerStaysEmpty ==
    ~cleanupInterval => \A u \in URLs : inFlightRequests[u] = NoEntry

\* C30: a computation carries the useCache flag of the call that started it,
\* and no later step, a joining call with either flag included, changes it;
\* its completion writes the cache exactly when that flag is set and the
\* result is a success, and then stores that result under its URL; and every
\* caller holding the promise, starter or joiner, is handed the result.
C30_StarterDecidesCaching ==
    [][ /\ \A u \in FeedURLs, uc \in BOOLEAN :
             (ParseFeed(u, uc) /\ last'.via = "started")
             => ( /\ last'.comp = Len(comps')
                  /\ comps'[last'.comp].url = u
                  /\ comps'[last'.comp].useCache = uc )
        /\ \A c \in CompIds :
             Pending(c) => comps'[c].useCache = comps[c].useCache
        /\ \A c \in CompIds :
             (Pending(c) /\ ~Pending(c)')
             => ( /\ (cache' # cache)
                     <=> (comps[c].useCache /\ comps'[c].status = "fulfilled"
                            /\ comps'[c].result.success)
                  /\ cache' # cache
                     => ( /\ IndexOf(cache', comps[c].url) # 0
                          /\ EntryOf(cache', comps[c].url).result = comps'[c].result ) )
        /\ \A c \in CompIds :
             (Deliver(c) /\ comps[c].status = "fulfilled")
             => ( /\ last'.via = "returned"
                  /\ last'.got = comps[c].result ) ]_vars

\* a computation started by a useCache = FALSE call and joined by a
\* useCache = TRUE call has completed with a success both callers still
\* await, and nothing is cached for its URL
C30_Witness ==
    /\ last.via = "joined"
    /\ last.useCache
    /\ last.comp \in CompIds
    /\ comps[last.comp].status = "fulfilled"
    /\ ~comps[last.comp].useCache
    /\ comps[last.comp].result.success
    /\ comps[last.comp].waiters = 2
    /\ IndexOf(cache, last.url) = 0

====
